---- MODULE Spec2Model ----
(***************************************************************************)
(* A model of the executorjs workflow engine: WorkflowContext,             *)
(* WorkflowEngine.execute and WorkflowEngine.notifyObservers, with the     *)
(* steps and the observer callbacks as the environment.  Every `await` of  *)
(* the engine is a pair of actions (the call, and the settling of the      *)
(* promise), so that several runs of one engine interleave exactly at the  *)
(* engine's suspension points.                                             *)
(***************************************************************************)
EXTENDS Integers, Sequences, FiniteSets, TLC

(* ------------------------------ bounds --------------------------------- *)
\* longest step list registered on the engine
MaxSteps == 2
\* longest observer list registered on the engine
MaxObservers == 2
\* step and observer list lengths of the engine shared by two runs
MaxShared == 1
\* most observer callbacks that raise in one run
MaxRaises == 2
\* last instant of the wall clock of a context used directly
MaxClock == 3
\* most operations called on a context used directly
MaxCalls == 4

(* --------------------------- value universe ---------------------------- *)
\* an absent string (JavaScript undefined in a string-typed field)
Undefined == "undefined"
\* an absent number / instant
Absent == 0 - 1

AllRuns == {1, 2}

\* the five optional callbacks of WorkflowObserver
EventNames ==
  {"onWorkflowStart", "onStepStart", "onStepComplete", "onStepError", "onWorkflowComplete"}

\* observers the caller may register: one that implements every callback and
\* one that omits the step-start, step-complete and workflow-complete callbacks
FullObserver == [kind |-> "full", implements |-> EventNames]
PartialObserver == [kind |-> "partial", implements |-> {"onWorkflowStart", "onStepError"}]
ObserverDefs == {FullObserver, PartialObserver}

\* the PerformanceObserver: every callback but onWorkflowStart
PerformanceObserver ==
  [kind |-> "performance",
   implements |-> {"onStepStart", "onStepComplete", "onStepError", "onWorkflowComplete"}]

\* steps the caller may register: name, and what execute writes to the context
StepA == [kind |-> "basic", name |-> "A", writes |-> "metadata"]
StepB == [kind |-> "basic", name |-> "B", writes |-> "result"]
StepDefs == {StepA, StepB}

\* a step whose executor writes nothing to the context
StepN == [kind |-> "basic", name |-> "N", writes |-> "nothing"]
QuietDefs == {StepN}

\* an absent step (the optional falseStep of a ConditionalStep)
NoStep == [kind |-> "none", name |-> Undefined, writes |-> "nothing"]

\* the ConditionalSteps the caller may register: the verdict of the condition
\* function, the step of the true branch, and the optional step of the false
\* branch
ConditionalDefs ==
  { [kind |-> "conditional", name |-> "C", writes |-> "nothing",
     condition |-> b, trueStep |-> StepA, falseStep |-> f] :
      b \in BOOLEAN, f \in {StepB, NoStep} }

\* keys of the metadata mapping that steps write
MetaKeys == {"A", "B"}

\* values a step or a callback may throw (reject with):
\*   an Error instance, a plain string, a number, and an object that has no
\*   conversion to a primitive (Object.create(null)), for which String() throws
NoFailure == [kind |-> "none", message |-> "", num |-> 0]
ErrorBoom == [kind |-> "Error", message |-> "boom", num |-> 0]
StringOops == [kind |-> "string", message |-> "oops", num |-> 0]
Number42 == [kind |-> "number", message |-> "", num |-> 42]
NullProto == [kind |-> "nullproto", message |-> "", num |-> 0]
FailureValues == {ErrorBoom, StringOops, Number42, NullProto}
\* the values the steps of the engine runs fail with
StepFailures == {ErrorBoom, StringOops, NullProto}

\* the maxConcurrency the caller may configure (Absent: not configured)
ConcurrencyHints == {Absent, 1, 2, 4}

\* the input the caller passes to the r-th call of execute
InputOf(r) == 10 * r

\* the caller-configured workflowId and the generated ones (uuidv4)
ConfiguredId == "wf-1"
Uuid(n) == IF n = 1 THEN "uuid-1" ELSE IF n = 2 THEN "uuid-2" ELSE "uuid-3"

\* object identities of metadata mappings: the seed of the engine options,
\* and one fresh `{}` per constructed context
SeedRef == 0
FreshRef(r) == r
Refs == {SeedRef} \cup AllRuns
NoRef == Absent
EmptyObject == [k \in MetaKeys |-> Absent]

(* ----------------------- pure functions of the code -------------------- *)
Digit(d) == <<"0", "1", "2", "3", "4", "5", "6", "7", "8", "9">>[d + 1]

RECURSIVE NumberToString(_)
\* String(n) for a non-negative integer n
NumberToString(n) == IF n < 10 THEN Digit(n) ELSE NumberToString(n \div 10) \o Digit(n % 10)

\* String(error): throws a TypeError for an object without a primitive conversion
StringThrows(error) == error.kind = "nullproto"
StringOf(error) ==
  IF error.kind = "number" THEN NumberToString(error.num) ELSE error.message

\* error instanceof Error ? error.message : String(error)
ErrorMessage(error) == IF error.kind = "Error" THEN error.message ELSE StringOf(error)

\* whether building the error record throws
AddErrorThrows(error) == error.kind # "Error" /\ StringThrows(error)

\* (mutant) the record replaces the errors recorded before
AddErrorReplaces(c, step, error, t) ==
  [c EXCEPT !.errors =
     <<[step |-> step, message |-> ErrorMessage(error),
        details |-> error, timestamp |-> t]>>]

\* WorkflowContext.addError: the errors sequence after the push
AddError(c, step, error, t) ==
  [c EXCEPT !.errors =
     Append(@, [step |-> step, message |-> ErrorMessage(error),
                details |-> error, timestamp |-> t])]

\* WorkflowContext.complete
CompleteCtx(c, t) == [c EXCEPT !.endTime = t]

\* (mutant) the difference taken the wrong way round
DurationMsReversed(c) == IF c.endTime = Absent THEN Absent ELSE c.startTime - c.endTime

\* get durationMs (Absent is undefined)
DurationMs(c) == IF c.endTime = Absent THEN Absent ELSE c.endTime - c.startTime

\* (mutant) successful only once the context is completed
SuccessfulWhenCompleted(c) == Len(c.errors) = 0 /\ c.endTime # Absent

\* get successful
Successful(c) == Len(c.errors) = 0

\* (mutant) the context gets a fresh metadata mapping whatever the options
NewContextNoSeed(opts, input, uuid, fresh, t) ==
  [workflowId |-> IF opts.workflowId # Undefined THEN opts.workflowId ELSE uuid,
   workflowName |-> opts.workflowName,
   input |-> input,
   result |-> opts.result,
   errors |-> << >>,
   metadata |-> fresh,
   currentStepName |-> Undefined,
   startTime |-> t,
   endTime |-> Absent]

\* new WorkflowContext(options): options.workflowId ?? uuidv4(),
\* options.metadata ?? {}
NewContext(opts, input, uuid, fresh, t) ==
  [workflowId |-> IF opts.workflowId # Undefined THEN opts.workflowId ELSE uuid,
   workflowName |-> opts.workflowName,
   input |-> input,
   result |-> opts.result,
   errors |-> << >>,
   metadata |-> IF opts.metadata # NoRef THEN opts.metadata ELSE fresh,
   currentStepName |-> Undefined,
   startTime |-> t,
   endTime |-> Absent]

NoContext ==
  [workflowId |-> Undefined, workflowName |-> Undefined, input |-> Absent,
   result |-> Absent, errors |-> << >>, metadata |-> NoRef,
   currentStepName |-> Undefined, startTime |-> Absent, endTime |-> Absent]

(* ------------------------ JavaScript objects ---------------------------- *)
\* an object whose property order matters is the sequence of its entries
\* [key, value] in the order Object.keys, Object.values and Object.entries
\* enumerate them: the keys that are array indexes first, in ascending numeric
\* order, then the other keys in the order they were created
IndexKeys == {NumberToString(n) : n \in 0 .. 9}
IsIndexKey(key) == key \in IndexKeys
IndexValue(key) == CHOOSE n \in 0 .. 9 : NumberToString(n) = key

HasKey(object, key) == \E i \in 1 .. Len(object) : object[i].key = key

\* whether an existing key is enumerated before a key that is created now
EnumeratedBefore(existing, created) ==
  IF IsIndexKey(created)
    THEN IsIndexKey(existing) /\ IndexValue(existing) < IndexValue(created)
    ELSE TRUE

\* object[key] = value
ObjectSet(object, key, value) ==
  IF HasKey(object, key)
    THEN [i \in 1 .. Len(object) |->
            IF object[i].key = key THEN [key |-> key, value |-> value] ELSE object[i]]
    ELSE LET n == Cardinality({i \in 1 .. Len(object) : EnumeratedBefore(object[i].key, key)})
         IN SubSeq(object, 1, n) \o <<[key |-> key, value |-> value]>>
              \o SubSeq(object, n + 1, Len(object))

\* entries.reduce((result, [k, v]) => { result[k] = v; return result }, {})
RECURSIVE ObjectFrom(_)
ObjectFrom(entries) ==
  IF entries = << >> THEN << >>
  ELSE ObjectSet(ObjectFrom(SubSeq(entries, 1, Len(entries) - 1)),
                 entries[Len(entries)].key, entries[Len(entries)].value)

\* entries.sort(([, a], [, b]) => b - a): descending by value, and stable
RECURSIVE SortDescending(_)
SortDescending(entries) ==
  IF entries = << >> THEN << >>
  ELSE LET sorted == SortDescending(SubSeq(entries, 1, Len(entries) - 1))
           last == entries[Len(entries)]
           n == Cardinality({i \in 1 .. Len(sorted) : sorted[i].value >= last.value})
       IN SubSeq(sorted, 1, n) \o <<last>> \o SubSeq(sorted, n + 1, Len(sorted))

\* values.reduce((sum, v) => sum + v, 0), Math.max(...values), Math.min(...values)
RECURSIVE SumOf(_)
SumOf(entries) ==
  IF entries = << >> THEN 0 ELSE entries[1].value + SumOf(Tail(entries))
MaxOf(entries) ==
  CHOOSE v \in {entries[i].value : i \in 1 .. Len(entries)} :
    \A i \in 1 .. Len(entries) : entries[i].value <= v
MinOf(entries) ==
  CHOOSE v \in {entries[i].value : i \in 1 .. Len(entries)} :
    \A i \in 1 .. Len(entries) : entries[i].value >= v

(* ------------------------- PerformanceObserver -------------------------- *)
\* an object without entries whose property order does not matter
NoEntries == [k \in {} |-> 0]

\* `${context.workflowId}:${stepName}`
StartKey(workflowId, stepName) == workflowId \o ":" \o stepName

\* context.metadata.performance: absent, or { steps, summary?, stepsByDuration? }
NoSummary ==
  [total |-> Absent, average |-> [sum |-> Absent, over |-> Absent],
   max |-> Absent, min |-> Absent, count |-> Absent]
NoPerformance ==
  [exists |-> FALSE, steps |-> << >>, summary |-> NoSummary, stepsByDuration |-> << >>]
NewPerformance ==
  [exists |-> TRUE, steps |-> << >>, summary |-> NoSummary, stepsByDuration |-> << >>]

\* onStepStart: this.stepStartTimes[key] = Date.now()
OnStepStart(times, key, t) == (key :> t) @@ times

\* recordStepDuration: performance is created if it is not there, and
\* performance.steps[stepName] = duration
RecordStepDuration(performance, stepName, duration) ==
  LET p == IF performance.exists THEN performance ELSE NewPerformance
  IN [p EXCEPT !.steps = ObjectSet(@, stepName, duration)]

\* onStepComplete: if (!startTime) return; the duration is recorded and the
\* start timestamp is deleted
OnStepComplete(times, performance, key, stepName, t) ==
  IF key \notin DOMAIN times \/ times[key] = 0
    THEN [times |-> times, performance |-> performance]
    ELSE [times |-> [k \in DOMAIN times \ {key} |-> times[k]],
          performance |-> RecordStepDuration(performance, stepName, t - times[key])]

\* onWorkflowComplete: without recorded steps nothing is written; else the
\* summary and the steps sorted by duration (average is the quotient sum / over)
OnWorkflowComplete(performance) ==
  IF ~performance.exists \/ Len(performance.steps) = 0 THEN performance
  ELSE [performance EXCEPT
          !.summary = [total |-> SumOf(performance.steps),
                       average |-> [sum |-> SumOf(performance.steps),
                                    over |-> Len(performance.steps)],
                       max |-> MaxOf(performance.steps),
                       min |-> MinOf(performance.steps),
                       count |-> Len(performance.steps)],
          !.stepsByDuration = ObjectFrom(SortDescending(performance.steps))]

(* --------------------------- ConsoleObserver ---------------------------- *)
\* values of context.input a caller may pass: undefined, the numbers 0 and 42,
\* a string, a plain object (text: its JSON), an object that refers to itself,
\* and the BigInts 0n and 1n
InputUndefined == [kind |-> "undefined", text |-> "undefined"]
InputZero == [kind |-> "number", text |-> "0"]
Input42 == [kind |-> "number", text |-> "42"]
InputString == [kind |-> "string", text |-> "in"]
InputObject == [kind |-> "object", text |-> "{\"a\":1}"]
InputCyclic == [kind |-> "cyclic", text |-> ""]
InputBigZero == [kind |-> "bigint", text |-> "0"]
InputBigOne == [kind |-> "bigint", text |-> "1"]
ConsoleInputs ==
  {InputUndefined, InputZero, Input42, InputString, InputObject, InputCyclic,
   InputBigZero, InputBigOne}

\* whether `value ? a : b` takes b
Falsy(value) ==
  \/ value.kind = "undefined"
  \/ value.kind \in {"number", "bigint"} /\ value.text = "0"
  \/ value.kind = "string" /\ value.text = ""

\* JSON.stringify(value): a TypeError for a circular structure and for a BigInt
JsonStringifyThrows(value) == value.kind \in {"cyclic", "bigint"}
JsonStringify(value) ==
  IF value.kind = "string" THEN "\"" \o value.text \o "\"" ELSE value.text

\* the options of a ConsoleObserver after its constructor merged the defaults
ConsoleOptions ==
  [logStepStart : BOOLEAN, logStepComplete : BOOLEAN, logStepError : BOOLEAN,
   logWorkflowStart : BOOLEAN, logWorkflowComplete : BOOLEAN,
   useConsoleTime : BOOLEAN, logLevel : {"log", "info", "debug"}]
ConsoleObservers ==
  {[kind |-> "console", implements |-> EventNames, options |-> o] : o \in ConsoleOptions}

\* what a call of a callback did: whether it raised, how many console
\* methods it called, and the last text it wrote with console[logLevel]
Outcome(callback, raised, calls, text) ==
  [callback |-> callback, raised |-> raised, calls |-> calls, text |-> text]
NoOutcome == Outcome("", FALSE, 0, "")

\* 1 when console.time / console.timeEnd is called
Timed(o) == IF o.useConsoleTime THEN 1 ELSE 0

\* onStepStart
ConsoleOnStepStart(o, stepName, c) ==
  IF ~o.logStepStart THEN Outcome("onStepStart", FALSE, 0, "")
  ELSE Outcome("onStepStart", FALSE, 1 + Timed(o),
               "[" \o c.workflowId \o "] Starting step: " \o stepName)

\* onStepComplete
ConsoleOnStepComplete(o, stepName, c) ==
  IF ~o.logStepComplete THEN Outcome("onStepComplete", FALSE, 0, "")
  ELSE Outcome("onStepComplete", FALSE, Timed(o) + 1,
               "[" \o c.workflowId \o "] Completed step: " \o stepName)

\* onStepError: console.error takes the error as it is
ConsoleOnStepError(o, stepName, error, c) ==
  IF ~o.logStepError THEN Outcome("onStepError", FALSE, 0, "")
  ELSE Outcome("onStepError", FALSE, Timed(o) + 1, "")

\* onWorkflowStart: the arguments of console[logLevel] are evaluated first,
\* context.input ? `with input: ${JSON.stringify(context.input)}` : ''
ConsoleOnWorkflowStart(o, c) ==
  IF ~o.logWorkflowStart THEN Outcome("onWorkflowStart", FALSE, 0, "")
  ELSE IF Falsy(c.input) THEN Outcome("onWorkflowStart", FALSE, 1 + Timed(o), "")
  ELSE IF JsonStringifyThrows(c.input) THEN Outcome("onWorkflowStart", TRUE, 0, "")
  ELSE Outcome("onWorkflowStart", FALSE, 1 + Timed(o),
               "with input: " \o JsonStringify(c.input))

\* onWorkflowComplete: the errors are written with console.error if there are any
ConsoleOnWorkflowComplete(o, c) ==
  IF ~o.logWorkflowComplete THEN Outcome("onWorkflowComplete", FALSE, 0, "")
  ELSE Outcome("onWorkflowComplete", FALSE,
               Timed(o) + 1 + (IF Len(c.errors) > 0 THEN 1 ELSE 0),
               IF Len(c.errors) = 0 THEN "successfully"
               ELSE "with " \o NumberToString(Len(c.errors)) \o " errors")

(* ------------------------------- state --------------------------------- *)
VARIABLES
  options,    \* WorkflowEngine.options
  steps,      \* WorkflowEngine.steps
  observers,  \* WorkflowEngine.observers
  heap,       \* the metadata mappings, by object identity
  ctx,        \* the context of each run (NoContext before execute)
  pc,         \* position of each run's execute
  stepIdx,    \* index of the for-of iterator over this.steps
  obsIdx,     \* index of the for-of iterator over this.observers
  inflight,   \* whether the awaited call of the run has not settled yet
  caught,     \* the `error` bound by the catch clause of execute
  log,        \* what each run did, in order
  diag,       \* number of console.error calls of notifyObservers, per run
  now,        \* the instant of the wall clock (Tick moves it, in SpecContext)
  uuids,      \* number of identifiers uuidv4 has generated
  request,    \* the argument of WorkflowFactory.createWorkflow, if it made the engine
  stepStartTimes, \* PerformanceObserver.stepStartTimes, of the one such observer
  perf,       \* metadata.performance of each metadata mapping
  consoleOut  \* what the last direct call of a ConsoleObserver callback did

vars ==
  <<options, steps, observers, heap, ctx, pc, stepIdx, obsIdx, inflight, caught,
    log, diag, now, uuids, request, stepStartTimes, perf, consoleOut>>

observerVars == <<stepStartTimes, perf, consoleOut>>

engineVars == <<options, steps, observers, request>>

\* an entry of the log
Entry(ev, event, obs, step, failed) ==
  [ev |-> ev, event |-> event, obs |-> obs, step |-> step, failed |-> failed]

\* new Date(): the instant the wall clock shows
Date == now

(* ------------------------------ Init ----------------------------------- *)
\* no execute has been called and no context exists
NothingRun ==
  /\ heap = [o \in Refs |-> EmptyObject]
  /\ ctx = [r \in AllRuns |-> NoContext]
  /\ pc = [r \in AllRuns |-> "idle"]
  /\ stepIdx = [r \in AllRuns |-> 0]
  /\ obsIdx = [r \in AllRuns |-> 0]
  /\ inflight = [r \in AllRuns |-> FALSE]
  /\ caught = [r \in AllRuns |-> NoFailure]
  /\ log = [r \in AllRuns |-> << >>]
  /\ diag = [r \in AllRuns |-> 0]
  /\ now = 1
  /\ uuids = 0
  /\ stepStartTimes = NoEntries
  /\ perf = [o \in Refs |-> NoPerformance]
  /\ consoleOut = NoOutcome

\* the engine was constructed directly, not by the factory
NoRequest == [steps |-> << >>, observers |-> << >>]

\* new WorkflowEngine(options): continueOnError and maxConcurrency get their
\* defaults (?? false, ?? 1); the id and the metadata seed are optional
Constructed(ids, seeds, hints) ==
  /\ \E coe \in BOOLEAN, id \in ids, seed \in seeds, hint \in hints :
       options = [workflowName |-> "wf", workflowId |-> id, metadata |-> seed,
                  result |-> Absent, continueOnError |-> coe,
                  maxConcurrency |-> IF hint = Absent THEN 1 ELSE hint]
  /\ steps = << >>
  /\ observers = << >>
  /\ request = NoRequest
  /\ NothingRun

\* an engine without a configured id
Init == Constructed({Undefined}, {NoRef, SeedRef}, {Absent})

(* --------------------------- registration ------------------------------ *)
\* array.push(x)
Push(array, x) == Append(array, x)

\* (mutant) the elements are put in front
PushFront(array, list) == list \o array

\* array.push(...list)
PushAll(array, list) == array \o list

\* addStep(step): this.steps.push(step)
AddStep(s) ==
  /\ steps' = Push(steps, s)
  /\ UNCHANGED <<options, request, observerVars, observers, heap, ctx, pc, stepIdx, obsIdx, inflight,
                 caught, log, diag, now, uuids>>

\* the arrays of at most n elements of S
Lists(S, n) == UNION {[1 .. k -> S] : k \in 0 .. n}

\* addSteps(steps): this.steps.push(...steps)
AddSteps(list) ==
  /\ steps' = PushAll(steps, list)
  /\ UNCHANGED <<options, request, observerVars, observers, heap, ctx, pc, stepIdx, obsIdx, inflight,
                 caught, log, diag, now, uuids>>

\* addObserver(observer): this.observers.push(observer)
AddObserver(o) ==
  /\ observers' = Push(observers, o)
  /\ UNCHANGED <<options, request, observerVars, steps, heap, ctx, pc, stepIdx, obsIdx, inflight,
                 caught, log, diag, now, uuids>>

\* addObservers(observers): this.observers.push(...observers)
AddObservers(list) ==
  /\ observers' = PushAll(observers, list)
  /\ UNCHANGED <<options, request, observerVars, steps, heap, ctx, pc, stepIdx, obsIdx, inflight,
                 caught, log, diag, now, uuids>>

(* ------------------------------ execute -------------------------------- *)
Record(r, e) == log' = [log EXCEPT ![r] = Append(@, e)]

\* entering notifyObservers(eventName, ...): the iterator over this.observers
EnterNotify(r, eventName) ==
  /\ pc' = [pc EXCEPT ![r] = eventName]
  /\ obsIdx' = [obsIdx EXCEPT ![r] = 1]

\* execute(input), up to the first await: the context is constructed from
\* {...this.options, input}
Execute(r, input) ==
  /\ pc[r] = "idle"
  /\ ctx' = [ctx EXCEPT ![r] =
               NewContext(options, input, Uuid(uuids + 1), FreshRef(r), Date)]
  /\ uuids' = IF options.workflowId = Undefined THEN uuids + 1 ELSE uuids
  /\ Record(r, Entry("construct", "", 0, 0, FALSE))
  /\ EnterNotify(r, "onWorkflowStart")
  /\ UNCHANGED <<engineVars, observerVars, heap, stepIdx, inflight, caught, diag, now>>

\* the callbacks that take a step name
StepEvents == {"onStepStart", "onStepComplete", "onStepError"}

\* the step the notification of run r is about (0: the workflow)
StepArg(r) == IF pc[r] \in StepEvents THEN stepIdx[r] ELSE 0

\* (mutant) the iterator skips an element
IterSkip(i) == i + 2

\* the array iterator of a for-of loop moving on
IterNext(i) == i + 1

\* the observer the iterator of notifyObservers is at
ObserverAt(j) == observers[j]

\* typeof observer[eventName] === 'function'
Implements(o, eventName) == eventName \in o.implements

\* (mutant) the callback is called and not awaited
NotifyCallNoAwait(r) ==
  /\ pc[r] \in EventNames
  /\ ~inflight[r]
  /\ obsIdx[r] <= Len(observers)
  /\ Implements(ObserverAt(obsIdx[r]), pc[r])
  /\ obsIdx' = [obsIdx EXCEPT ![r] = IterNext(@)]
  /\ Record(r, Entry("cbStart", pc[r], obsIdx[r], StepArg(r), FALSE))
  /\ UNCHANGED <<engineVars, observerVars, heap, ctx, pc, stepIdx, inflight, caught, diag, now, uuids>>

\* what the callback of an observer does before it returns: the callbacks of
\* the PerformanceObserver are synchronous, the other observers of the
\* engine runs write nothing
CallbackRuns(r, observer) ==
  IF observer.kind # "performance" THEN UNCHANGED observerVars
  ELSE LET ref == ctx[r].metadata
           key == StartKey(ctx[r].workflowId, steps[stepIdx[r]].name)
       IN CASE pc[r] = "onStepStart" ->
                 /\ stepStartTimes' = OnStepStart(stepStartTimes, key, Date)
                 /\ UNCHANGED <<perf, consoleOut>>
            [] pc[r] \in {"onStepComplete", "onStepError"} ->
                 LET out == OnStepComplete(stepStartTimes, perf[ref], key,
                                           steps[stepIdx[r]].name, Date)
                 IN /\ stepStartTimes' = out.times
                    /\ perf' = [perf EXCEPT ![ref] = out.performance]
                    /\ UNCHANGED consoleOut
            [] pc[r] = "onWorkflowComplete" ->
                 /\ perf' = [perf EXCEPT ![ref] = OnWorkflowComplete(@)]
                 /\ UNCHANGED <<stepStartTimes, consoleOut>>
            [] OTHER -> UNCHANGED observerVars

\* notifyObservers: await method.apply(observer, args), the call
NotifyCall(r) ==
  /\ pc[r] \in EventNames
  /\ ~inflight[r]
  /\ obsIdx[r] <= Len(observers)
  /\ Implements(ObserverAt(obsIdx[r]), pc[r])
  /\ inflight' = [inflight EXCEPT ![r] = TRUE]
  /\ Record(r, Entry("cbStart", pc[r], obsIdx[r], StepArg(r), FALSE))
  /\ CallbackRuns(r, ObserverAt(obsIdx[r]))
  /\ UNCHANGED <<engineVars, heap, ctx, pc, stepIdx, obsIdx, caught, diag, now, uuids>>

\* notifyObservers: the observer does not implement the callback
NotifySkip(r) ==
  /\ pc[r] \in EventNames
  /\ ~inflight[r]
  /\ obsIdx[r] <= Len(observers)
  /\ ~Implements(ObserverAt(obsIdx[r]), pc[r])
  /\ obsIdx' = [obsIdx EXCEPT ![r] = IterNext(@)]
  /\ UNCHANGED <<engineVars, observerVars, heap, ctx, pc, stepIdx, inflight, caught, log, diag,
                 now, uuids>>

\* notifyObservers: the awaited callback completed
CallbackReturn(r) ==
  /\ pc[r] \in EventNames
  /\ inflight[r]
  /\ inflight' = [inflight EXCEPT ![r] = FALSE]
  /\ obsIdx' = [obsIdx EXCEPT ![r] = IterNext(@)]
  /\ Record(r, Entry("cbEnd", pc[r], obsIdx[r], StepArg(r), FALSE))
  /\ UNCHANGED <<engineVars, observerVars, heap, ctx, pc, stepIdx, caught, diag, now, uuids>>

\* (mutant) without the try/catch the failure leaves notifyObservers: into the
\* catch clause of the step loop, or out of execute
OnCallbackRaisePropagates(r, error) ==
  /\ pc' = [pc EXCEPT ![r] =
              IF pc[r] \in {"onStepStart", "onStepComplete"} THEN "catch" ELSE "rejected"]
  /\ caught' = [caught EXCEPT ![r] = error]
  /\ UNCHANGED <<diag, obsIdx>>

\* (mutant) a callback that raises ends the step loop
OnCallbackRaiseBreaks(r, error) ==
  /\ diag' = [diag EXCEPT ![r] = @ + 1]
  /\ pc' = [pc EXCEPT ![r] = IF pc[r] = "onWorkflowComplete" THEN @ ELSE "complete"]
  /\ obsIdx' = [obsIdx EXCEPT ![r] = IterNext(@)]
  /\ UNCHANGED caught

\* notifyObservers: catch (error) { console.error(...) }, then the next observer
OnCallbackRaise(r, error) ==
  /\ diag' = [diag EXCEPT ![r] = @ + 1]
  /\ obsIdx' = [obsIdx EXCEPT ![r] = IterNext(@)]
  /\ UNCHANGED <<pc, caught>>

\* notifyObservers: the awaited callback raised
CallbackRaise(r) ==
  /\ pc[r] \in EventNames
  /\ inflight[r]
  /\ diag[r] < MaxRaises
  /\ inflight' = [inflight EXCEPT ![r] = FALSE]
  /\ Record(r, Entry("cbEnd", pc[r], obsIdx[r], StepArg(r), FALSE))
  /\ \E error \in {ErrorBoom, NullProto} : OnCallbackRaise(r, error)
  /\ UNCHANGED <<engineVars, observerVars, heap, ctx, stepIdx, now, uuids>>

\* whether the catch clause of the step loop breaks out of the loop
BreaksOnError == ~options.continueOnError

\* notifyObservers returned to execute: what execute does next
NotifyDone(r) ==
  /\ pc[r] \in EventNames
  /\ ~inflight[r]
  /\ obsIdx[r] > Len(observers)
  /\ CASE pc[r] = "onWorkflowStart" ->
            /\ pc' = [pc EXCEPT ![r] = "loop"]
            /\ stepIdx' = [stepIdx EXCEPT ![r] = 1]
            /\ UNCHANGED log
       [] pc[r] = "onStepStart" ->
            /\ pc' = [pc EXCEPT ![r] = "execute"]
            /\ UNCHANGED <<stepIdx, log>>
       [] pc[r] = "onStepComplete" ->
            /\ pc' = [pc EXCEPT ![r] = "loop"]
            /\ stepIdx' = [stepIdx EXCEPT ![r] = IterNext(@)]
            /\ UNCHANGED log
       [] pc[r] = "onStepError" ->
            /\ pc' = [pc EXCEPT ![r] = IF BreaksOnError THEN "complete" ELSE "loop"]
            /\ stepIdx' = [stepIdx EXCEPT ![r] = IF BreaksOnError THEN @ ELSE IterNext(@)]
            /\ UNCHANGED log
       [] pc[r] = "onWorkflowComplete" ->
            /\ pc' = [pc EXCEPT ![r] = "returned"]
            /\ Record(r, Entry("return", "", 0, 0, FALSE))
            /\ UNCHANGED stepIdx
  /\ UNCHANGED <<engineVars, observerVars, heap, ctx, obsIdx, inflight, caught, diag, now, uuids>>

\* (mutant) step-start is notified and currentStepName is not set
LoopStepNoName(r) ==
  /\ pc[r] = "loop"
  /\ stepIdx[r] <= Len(steps)
  /\ Record(r, Entry("setCurrent", "", 0, stepIdx[r], FALSE))
  /\ EnterNotify(r, "onStepStart")
  /\ UNCHANGED <<engineVars, observerVars, heap, ctx, stepIdx, inflight, caught, diag, now, uuids>>

\* for (const step of this.steps): context.currentStepName = step.name, then
\* notifyObservers('onStepStart')
LoopStep(r) ==
  /\ pc[r] = "loop"
  /\ stepIdx[r] <= Len(steps)
  /\ ctx' = [ctx EXCEPT ![r].currentStepName = steps[stepIdx[r]].name]
  /\ Record(r, Entry("setCurrent", "", 0, stepIdx[r], FALSE))
  /\ EnterNotify(r, "onStepStart")
  /\ UNCHANGED <<engineVars, observerVars, heap, stepIdx, inflight, caught, diag, now, uuids>>

\* (mutant) the loop ends after the steps that were registered when execute
\* was called, whatever was registered since
LoopExitSnapshot(r) ==
  /\ pc[r] = "loop"
  /\ stepIdx[r] >
       Len(steps) - Cardinality({p \in 1 .. Len(log[r]) : log[r][p].ev = "addStep"})
  /\ pc' = [pc EXCEPT ![r] = "complete"]
  /\ UNCHANGED <<engineVars, observerVars, heap, ctx, stepIdx, obsIdx, inflight, caught, log,
                 diag, now, uuids>>

\* (mutant) the loop ends and context.complete() is not called
LoopExitNoComplete(r) ==
  /\ pc[r] = "loop"
  /\ stepIdx[r] > Len(steps)
  /\ EnterNotify(r, "onWorkflowComplete")
  /\ UNCHANGED <<engineVars, observerVars, heap, ctx, stepIdx, inflight, caught, log, diag, now, uuids>>

\* the iterator over this.steps is exhausted
LoopExit(r) ==
  /\ pc[r] = "loop"
  /\ stepIdx[r] > Len(steps)
  /\ pc' = [pc EXCEPT ![r] = "complete"]
  /\ UNCHANGED <<engineVars, observerVars, heap, ctx, stepIdx, obsIdx, inflight, caught, log,
                 diag, now, uuids>>

\* what a step's execute writes to the context it is given
StepWrites(r, step) ==
  /\ heap' = IF step.writes = "metadata"
               THEN [heap EXCEPT ![ctx[r].metadata][step.name] = ctx[r].input]
               ELSE heap
  /\ ctx' = IF step.writes = "result"
              THEN [ctx EXCEPT ![r].result = ctx[r].input]
              ELSE ctx

\* (mutant) step.execute is called and not awaited
StepCallNoAwait(r) ==
  /\ pc[r] = "execute"
  /\ ~inflight[r]
  /\ StepWrites(r, steps[stepIdx[r]])
  /\ Record(r, Entry("execStart", "", 0, stepIdx[r], FALSE))
  /\ EnterNotify(r, "onStepComplete")
  /\ UNCHANGED <<engineVars, observerVars, stepIdx, inflight, caught, diag, now, uuids>>

\* (mutant) with a concurrency hint above 1 the step is called and not awaited
StepCallConcurrent(r) ==
  /\ pc[r] = "execute"
  /\ ~inflight[r]
  /\ StepWrites(r, steps[stepIdx[r]])
  /\ Record(r, Entry("execStart", "", 0, stepIdx[r], FALSE))
  /\ IF options.maxConcurrency > 1
       THEN EnterNotify(r, "onStepComplete") /\ UNCHANGED inflight
       ELSE inflight' = [inflight EXCEPT ![r] = TRUE] /\ UNCHANGED <<pc, obsIdx>>
  /\ UNCHANGED <<engineVars, observerVars, stepIdx, caught, diag, now, uuids>>

\* await step.execute(context), the call: a BasicStep runs its executor, a
\* ConditionalStep calls its condition function and awaits the verdict
StepCall(r) ==
  /\ pc[r] = "execute"
  /\ ~inflight[r]
  /\ inflight' = [inflight EXCEPT ![r] = TRUE]
  /\ StepWrites(r, steps[stepIdx[r]])
  /\ pc' = [pc EXCEPT ![r] =
              IF steps[stepIdx[r]].kind = "conditional" THEN "condition" ELSE @]
  /\ Record(r, Entry("execStart", "", 0, stepIdx[r], FALSE))
  /\ UNCHANGED <<engineVars, observerVars, stepIdx, obsIdx, caught, diag, now, uuids>>

\* (mutant) the true branch whatever the verdict
ChosenAlwaysTrue(step) == step.trueStep

\* ConditionalStep.execute: if (result) trueStep, else if (this.falseStep)
\* falseStep, else nothing
Chosen(step) == IF step.condition THEN step.trueStep ELSE step.falseStep

\* ConditionalStep.execute, after the verdict: await child.execute(context),
\* the call; without a child execute is done
ConditionSettles(r) ==
  /\ pc[r] = "condition"
  /\ inflight[r]
  /\ pc' = [pc EXCEPT ![r] = "execute"]
  /\ StepWrites(r, Chosen(steps[stepIdx[r]]))
  /\ Record(r, Entry("branch", Chosen(steps[stepIdx[r]]).name, 0, stepIdx[r], FALSE))
  /\ UNCHANGED <<engineVars, observerVars, stepIdx, obsIdx, inflight, caught, diag, now, uuids>>

\* whether the awaited execute of the step has anything in it that may fail:
\* the executor of a BasicStep, or the child a ConditionalStep delegated to
MayFail(step) == IF step.kind = "conditional" THEN Chosen(step) # NoStep ELSE TRUE

\* the awaited step.execute completed: notifyObservers('onStepComplete')
StepResolve(r) ==
  /\ pc[r] = "execute"
  /\ inflight[r]
  /\ inflight' = [inflight EXCEPT ![r] = FALSE]
  /\ Record(r, Entry("execEnd", "", 0, stepIdx[r], FALSE))
  /\ EnterNotify(r, "onStepComplete")
  /\ UNCHANGED <<engineVars, observerVars, heap, ctx, stepIdx, caught, diag, now, uuids>>

\* the awaited step.execute failed: control enters the catch clause
StepReject(r, error) ==
  /\ pc[r] = "execute"
  /\ inflight[r]
  /\ MayFail(steps[stepIdx[r]])
  /\ inflight' = [inflight EXCEPT ![r] = FALSE]
  /\ caught' = [caught EXCEPT ![r] = error]
  /\ pc' = [pc EXCEPT ![r] = "catch"]
  /\ Record(r, Entry("execEnd", "", 0, stepIdx[r], TRUE))
  /\ UNCHANGED <<engineVars, observerVars, heap, ctx, stepIdx, obsIdx, diag, now, uuids>>

\* the arguments of notifyObservers('onStepError', step.name, error, context)
StepErrorArgs(r) == [stepName |-> steps[stepIdx[r]].name, error |-> caught[r]]

\* (mutant) step-error is notified before the error is recorded
CatchNotifyFirst(r) ==
  /\ pc[r] = "catch"
  /\ ~AddErrorThrows(caught[r])
  /\ Record(r, Entry("addError", "", 0, stepIdx[r], FALSE))
  /\ EnterNotify(r, "onStepError")
  /\ UNCHANGED <<engineVars, observerVars, heap, ctx, stepIdx, inflight, caught, diag, now, uuids>>

\* catch (error): context.addError(step.name, error) appended a record:
\* notifyObservers('onStepError')
CatchRecord(r) ==
  /\ pc[r] = "catch"
  /\ ~AddErrorThrows(caught[r])
  /\ ctx' = [ctx EXCEPT ![r] = AddError(@, steps[stepIdx[r]].name, caught[r], Date)]
  /\ Record(r, Entry("addError", "", 0, stepIdx[r], FALSE))
  /\ EnterNotify(r, "onStepError")
  /\ UNCHANGED <<engineVars, observerVars, heap, stepIdx, inflight, caught, diag, now, uuids>>

\* catch (error): context.addError threw inside the catch clause, nothing
\* encloses it, and the promise of execute rejects
CatchThrows(r) ==
  /\ pc[r] = "catch"
  /\ AddErrorThrows(caught[r])
  /\ pc' = [pc EXCEPT ![r] = "rejected"]
  /\ Record(r, Entry("reject", "", 0, stepIdx[r], TRUE))
  /\ UNCHANGED <<engineVars, observerVars, heap, ctx, stepIdx, obsIdx, inflight, caught, diag,
                 now, uuids>>

\* (mutant) context.complete() and no notification of workflow-complete
CompleteNoNotify(r) ==
  /\ pc[r] = "complete"
  /\ ctx' = [ctx EXCEPT ![r] = CompleteCtx(@, Date)]
  /\ log' = [log EXCEPT ![r] = @ \o <<Entry("complete", "", 0, 0, FALSE),
                                        Entry("return", "", 0, 0, FALSE)>>]
  /\ pc' = [pc EXCEPT ![r] = "returned"]
  /\ UNCHANGED <<engineVars, observerVars, heap, stepIdx, obsIdx, inflight, caught, diag, now, uuids>>

\* context.complete(), then notifyObservers('onWorkflowComplete')
Complete(r) ==
  /\ pc[r] = "complete"
  /\ ctx' = [ctx EXCEPT ![r] = CompleteCtx(@, Date)]
  /\ Record(r, Entry("complete", "", 0, 0, FALSE))
  /\ EnterNotify(r, "onWorkflowComplete")
  /\ UNCHANGED <<engineVars, observerVars, heap, stepIdx, inflight, caught, diag, now, uuids>>

\* one step of the run r, every awaited callback completing
EngineStep(r) ==
  \/ NotifyCall(r)
  \/ NotifySkip(r)
  \/ CallbackReturn(r)
  \/ NotifyDone(r)
  \/ LoopStep(r)
  \/ LoopExit(r)
  \/ StepCall(r)
  \/ StepResolve(r)
  \/ \E error \in StepFailures : StepReject(r, error)
  \/ CatchRecord(r)
  \/ CatchThrows(r)
  \/ Complete(r)

\* no execute has been called yet
NoRunYet == \A r \in AllRuns : pc[r] = "idle"

(* --------------------- one run of a configured engine ------------------ *)
Next ==
  \/ \E s \in StepDefs : NoRunYet /\ Len(steps) < MaxSteps /\ AddStep(s)
  \/ \E o \in ObserverDefs : NoRunYet /\ Len(observers) < MaxObservers /\ AddObserver(o)
  \/ Execute(1, InputOf(1))
  \/ EngineStep(1)
  \/ CallbackRaise(1)

Spec == Init /\ [][Next]_vars

\* every awaited step and callback settles, and the engine goes on when it can
Fairness == WF_vars(EngineStep(1) \/ CallbackRaise(1))

SpecLive == Init /\ [][Next]_vars /\ Fairness

(* --------------------- two runs of one shared engine ------------------- *)
NextRuns ==
  \/ \E s \in StepDefs : NoRunYet /\ Len(steps) < MaxShared /\ AddStep(s)
  \/ \E o \in ObserverDefs : NoRunYet /\ Len(observers) < MaxShared /\ AddObserver(o)
  \/ \E r \in AllRuns : Execute(r, InputOf(r))
  \/ \E r \in AllRuns : EngineStep(r)

\* the engine of the two runs may also have a configured id and a metadata seed
InitRuns == Constructed({Undefined, ConfiguredId}, {NoRef, SeedRef}, {Absent})

SpecRuns == InitRuns /\ [][NextRuns]_vars

(* ------------- one run of an engine configured in every way ------------ *)
\* registration one by one and by lists, any concurrency hint, and a run
\* whose observer callbacks all complete
NextConfig ==
  \/ \E s \in StepDefs : NoRunYet /\ Len(steps) < MaxSteps /\ AddStep(s)
  \/ \E list \in Lists(StepDefs, MaxSteps) :
       NoRunYet /\ Len(steps) + Len(list) <= MaxSteps /\ AddSteps(list)
  \/ \E o \in ObserverDefs : NoRunYet /\ Len(observers) < MaxObservers /\ AddObserver(o)
  \/ \E list \in Lists(ObserverDefs, MaxObservers) :
       NoRunYet /\ Len(observers) + Len(list) <= MaxObservers /\ AddObservers(list)
  \/ Execute(1, InputOf(1))
  \/ EngineStep(1)

InitConfig == Constructed({Undefined}, {NoRef}, ConcurrencyHints)

SpecConfig == InitConfig /\ [][NextConfig]_vars

(* ------------------ one run of an engine of ConditionalSteps ----------- *)
NextBranch ==
  \/ \E s \in ConditionalDefs : NoRunYet /\ Len(steps) < MaxSteps /\ AddStep(s)
  \/ \E o \in ObserverDefs : NoRunYet /\ Len(observers) < MaxObservers /\ AddObserver(o)
  \/ Execute(1, InputOf(1))
  \/ EngineStep(1)
  \/ ConditionSettles(1)

InitBranch == Constructed({Undefined}, {NoRef}, {Absent})

SpecBranch == InitBranch /\ [][NextBranch]_vars

(* -------------- one run of an engine of steps that write nothing ------- *)
NextFrame ==
  \/ \E s \in QuietDefs : NoRunYet /\ Len(steps) < MaxSteps /\ AddStep(s)
  \/ \E o \in ObserverDefs : NoRunYet /\ Len(observers) < MaxObservers /\ AddObserver(o)
  \/ Execute(1, InputOf(1))
  \/ EngineStep(1)
  \/ CallbackRaise(1)

InitFrame == Constructed({Undefined, ConfiguredId}, {NoRef, SeedRef}, {Absent})

SpecFrame == InitFrame /\ [][NextFrame]_vars

(* --------------- one run of an engine made by the factory -------------- *)
\* the arguments of WorkflowFactory.createWorkflow: engine options plus the
\* optional steps and observers (an absent list is the empty list here: the
\* factory treats the two alike)
FactoryArgs ==
  { [workflowName |-> "wf", workflowId |-> Undefined, metadata |-> NoRef,
     result |-> Absent, continueOnError |-> coe, maxConcurrency |-> hint,
     steps |-> stepList, observers |-> observerList] :
      coe \in BOOLEAN, hint \in {Absent, 2},
      stepList \in Lists(StepDefs, MaxSteps),
      observerList \in Lists(ObserverDefs, MaxObservers) }

\* const { steps, observers, ...engineOptions } = options, and the defaults
\* of new WorkflowEngine(engineOptions)
EngineOptions(arg) ==
  [workflowName |-> arg.workflowName, workflowId |-> arg.workflowId,
   metadata |-> arg.metadata, result |-> arg.result,
   continueOnError |-> arg.continueOnError,
   maxConcurrency |-> IF arg.maxConcurrency = Absent THEN 1 ELSE arg.maxConcurrency]

\* (mutant) the observers of the argument are not added
CreateWorkflowNoObservers(arg) ==
  [options |-> EngineOptions(arg),
   steps |-> IF Len(arg.steps) > 0 THEN PushAll(<< >>, arg.steps) ELSE << >>,
   observers |-> << >>]

\* WorkflowFactory.createWorkflow(options): the engine it returns
CreateWorkflow(arg) ==
  [options |-> EngineOptions(arg),
   steps |-> IF Len(arg.steps) > 0 THEN PushAll(<< >>, arg.steps) ELSE << >>,
   observers |-> IF Len(arg.observers) > 0 THEN PushAll(<< >>, arg.observers) ELSE << >>]

InitFactory ==
  /\ request \in FactoryArgs
  /\ options = CreateWorkflow(request).options
  /\ steps = CreateWorkflow(request).steps
  /\ observers = CreateWorkflow(request).observers
  /\ NothingRun

NextFactory ==
  \/ Execute(1, InputOf(1))
  \/ EngineStep(1)

SpecFactory == InitFactory /\ [][NextFactory]_vars

(* ------------------- a context used directly by a caller --------------- *)
\* new WorkflowContext(options)
Construct(r, input) ==
  /\ pc[r] = "idle"
  /\ ctx' = [ctx EXCEPT ![r] =
               NewContext(options, input, Uuid(uuids + 1), FreshRef(r), Date)]
  /\ uuids' = IF options.workflowId = Undefined THEN uuids + 1 ELSE uuids
  /\ pc' = [pc EXCEPT ![r] = "held"]
  /\ Record(r, Entry("construct", "", 0, 0, FALSE))
  /\ UNCHANGED <<engineVars, observerVars, heap, stepIdx, obsIdx, inflight, caught, diag, now>>

\* the caller holds the context and may call one more operation on it
Held(r) == pc[r] \in {"held", "threw"} /\ Len(log[r]) <= MaxCalls

\* the step name the caller passes to addError
DirectStepName == "A"

\* context.addError(step, error): the record is pushed, or the building of
\* the record throws and errors is left as it was
CallAddError(r, step, error) ==
  /\ Held(r)
  /\ IF AddErrorThrows(error)
       THEN /\ pc' = [pc EXCEPT ![r] = "threw"]
            /\ Record(r, Entry("throw", "", 0, 0, TRUE))
            /\ UNCHANGED ctx
       ELSE /\ pc' = [pc EXCEPT ![r] = "held"]
            /\ ctx' = [ctx EXCEPT ![r] = AddError(@, step, error, Date)]
            /\ Record(r, Entry("addError", "", 0, 0, FALSE))
  /\ UNCHANGED <<engineVars, observerVars, heap, stepIdx, obsIdx, inflight, caught, diag, now, uuids>>

\* context.complete()
CallComplete(r) ==
  /\ Held(r)
  /\ pc' = [pc EXCEPT ![r] = "held"]
  /\ ctx' = [ctx EXCEPT ![r] = CompleteCtx(@, Date)]
  /\ Record(r, Entry("complete", "", 0, 0, FALSE))
  /\ UNCHANGED <<engineVars, observerVars, heap, stepIdx, obsIdx, inflight, caught, diag, now, uuids>>

\* a millisecond passes
Tick ==
  /\ now < MaxClock
  /\ now' = now + 1
  /\ UNCHANGED <<engineVars, observerVars, heap, ctx, pc, stepIdx, obsIdx, inflight, caught, log,
                 diag, uuids>>

NextContext ==
  \/ Construct(1, InputOf(1))
  \/ \E error \in FailureValues : CallAddError(1, DirectStepName, error)
  \/ CallComplete(1)
  \/ Tick

InitContext == Constructed({Undefined, ConfiguredId}, {NoRef}, {Absent})

SpecContext == InitContext /\ [][NextContext]_vars

(* ------------- one run watched by the PerformanceObserver -------------- *)
\* steps that write nothing; a step name is any string, "1" and "2" are
\* names that are array indexes
Step1 == [kind |-> "basic", name |-> "1", writes |-> "nothing"]
Step2 == [kind |-> "basic", name |-> "2", writes |-> "nothing"]
TimedDefs == {Step1, Step2, StepN}

\* time passes while the executor of a step runs
StepTakesTime(r) ==
  /\ pc[r] = "execute"
  /\ inflight[r]
  /\ Tick

NextPerf ==
  \/ \E s \in TimedDefs : NoRunYet /\ Len(steps) < MaxSteps /\ AddStep(s)
  \/ NoRunYet /\ observers = << >> /\ AddObserver(PerformanceObserver)
  \/ Execute(1, InputOf(1))
  \/ EngineStep(1)
  \/ StepTakesTime(1)

SpecPerf == Init /\ [][NextPerf]_vars

(* ------------ two runs that share one PerformanceObserver -------------- *)
NextPerfRuns ==
  \/ \E s \in QuietDefs : NoRunYet /\ Len(steps) < MaxShared /\ AddStep(s)
  \/ NoRunYet /\ observers = << >> /\ AddObserver(PerformanceObserver)
  \/ \E r \in AllRuns : Execute(r, InputOf(r))
  \/ \E r \in AllRuns : EngineStep(r)
  \/ \E r \in AllRuns : StepTakesTime(r)

SpecPerfRuns == InitRuns /\ [][NextPerfRuns]_vars

(* ------- one run whose steps and observers register more of them ------ *)
\* the executor of the step that run r awaits calls engine.addStep(s)
StepAddsStep(r, s) ==
  /\ pc[r] = "execute"
  /\ inflight[r]
  /\ steps' = Push(steps, s)
  /\ Record(r, Entry("addStep", "execute", 0, Len(steps) + 1, FALSE))
  /\ UNCHANGED <<options, request, observerVars, observers, heap, ctx, pc, stepIdx, obsIdx,
                 inflight, caught, diag, now, uuids>>

\* the callback that run r awaits calls engine.addStep(s)
ObserverAddsStep(r, s) ==
  /\ pc[r] \in EventNames
  /\ inflight[r]
  /\ steps' = Push(steps, s)
  /\ Record(r, Entry("addStep", pc[r], obsIdx[r], Len(steps) + 1, FALSE))
  /\ UNCHANGED <<options, request, observerVars, observers, heap, ctx, pc, stepIdx, obsIdx,
                 inflight, caught, diag, now, uuids>>

\* the callback that run r awaits calls engine.addObserver(o)
ObserverAddsObserver(r, o) ==
  /\ pc[r] \in EventNames
  /\ inflight[r]
  /\ observers' = Push(observers, o)
  /\ Record(r, Entry("addObserver", pc[r], Len(observers) + 1, StepArg(r), FALSE))
  /\ UNCHANGED <<options, request, observerVars, steps, heap, ctx, pc, stepIdx, obsIdx,
                 inflight, caught, diag, now, uuids>>

NextGrow ==
  \/ \E s \in QuietDefs : NoRunYet /\ Len(steps) < MaxShared /\ AddStep(s)
  \/ \E o \in ObserverDefs : NoRunYet /\ Len(observers) < MaxShared /\ AddObserver(o)
  \/ Execute(1, InputOf(1))
  \/ EngineStep(1)
  \/ CallbackRaise(1)
  \/ \E s \in QuietDefs : Len(steps) < MaxSteps /\ StepAddsStep(1, s)
  \/ \E s \in QuietDefs : Len(steps) < MaxSteps /\ ObserverAddsStep(1, s)
  \/ \E o \in ObserverDefs : Len(observers) < MaxObservers /\ ObserverAddsObserver(1, o)

SpecGrow == Init /\ [][NextGrow]_vars

(* ------------- a ConsoleObserver called directly by a caller ----------- *)
\* the caller calls a callback of the ConsoleObserver with a context it holds
ConsoleCall(r, eventName, stepName, error) ==
  /\ Held(r)
  /\ observers # << >>
  /\ LET o == observers[1].options
     IN consoleOut' =
          CASE eventName = "onStepStart" -> ConsoleOnStepStart(o, stepName, ctx[r])
            [] eventName = "onStepComplete" -> ConsoleOnStepComplete(o, stepName, ctx[r])
            [] eventName = "onStepError" -> ConsoleOnStepError(o, stepName, error, ctx[r])
            [] eventName = "onWorkflowStart" -> ConsoleOnWorkflowStart(o, ctx[r])
            [] eventName = "onWorkflowComplete" -> ConsoleOnWorkflowComplete(o, ctx[r])
  /\ UNCHANGED <<engineVars, stepStartTimes, perf, heap, ctx, pc, stepIdx, obsIdx, inflight,
                 caught, log, diag, now, uuids>>

NextConsole ==
  \/ \E o \in ConsoleObservers : NoRunYet /\ observers = << >> /\ AddObserver(o)
  \/ \E input \in ConsoleInputs : Construct(1, input)
  \/ CallAddError(1, DirectStepName, ErrorBoom)
  \/ CallComplete(1)
  \/ \E eventName \in EventNames : ConsoleCall(1, eventName, DirectStepName, ErrorBoom)

SpecConsole == Init /\ [][NextConsole]_vars

(* ----------------------- reading the log of a run ---------------------- *)
Pos(r) == 1 .. Len(log[r])

\* execute has returned the context, or its promise has rejected
Returned(r) == pc[r] = "returned"
Rejected(r) == pc[r] = "rejected"
Over(r) == Returned(r) \/ Rejected(r)

\* the registered steps whose execute failed in run r
FailedSteps(r) ==
  {i \in 1 .. Len(steps) :
     \E p \in Pos(r) : log[r][p].ev = "execEnd" /\ log[r][p].step = i /\ log[r][p].failed}

Min(S) == CHOOSE x \in S : \A y \in S : x <= y

\* the steps whose execute was called, in the order of the calls
RECURSIVE StepsOf(_, _)
StepsOf(l, ev) ==
  IF l = << >> THEN << >>
  ELSE IF Head(l).ev = ev THEN <<Head(l).step>> \o StepsOf(Tail(l), ev)
  ELSE StepsOf(Tail(l), ev)
Executed(r) == StepsOf(log[r], "execStart")

\* the steps that observer j was notified of with eventName, in order
RECURSIVE NotifiedOf(_, _, _)
NotifiedOf(l, eventName, j) ==
  IF l = << >> THEN << >>
  ELSE IF Head(l).ev = "cbStart" /\ Head(l).event = eventName /\ Head(l).obs = j
    THEN <<Head(l).step>> \o NotifiedOf(Tail(l), eventName, j)
  ELSE NotifiedOf(Tail(l), eventName, j)
Notified(r, eventName, j) == NotifiedOf(log[r], eventName, j)

\* the observers that implement eventName
Listeners(eventName) ==
  {j \in 1 .. Len(observers) : Implements(observers[j], eventName)}

UpTo(n) == [i \in 1 .. n |-> i]

\* the number of entries of a kind
Count(r, ev) == Cardinality({p \in Pos(r) : log[r][p].ev = ev})

\* the names of the steps of the error records, in order
ErrorSteps(c) == [k \in 1 .. Len(c.errors) |-> c.errors[k].step]

(* ------------------------------- claims -------------------------------- *)

\* C1: execute never rejects because of a step or an observer, whatever
\* value a step fails with.  (The code rejects when addError throws on a
\* failure value that String() cannot convert.)
C1_ExecuteNeverRejects == \A r \in AllRuns : ~Rejected(r)

\* C2: with continueOnError = false and step k the first step that failed,
\* once the run is over no entry of the log is about a step after k, every
\* listener got step-start for steps 1..k, step-complete for the steps before
\* k and step-error for k, and errors holds exactly one record, of step k.
C2_StopsAtFirstFailure ==
  \A r \in AllRuns :
    (Over(r) /\ ~options.continueOnError /\ FailedSteps(r) # {}) =>
      LET k == Min(FailedSteps(r)) IN
        /\ \A p \in Pos(r) : log[r][p].step <= k
        /\ Executed(r) = UpTo(k)
        /\ \A j \in Listeners("onStepStart") : Notified(r, "onStepStart", j) = UpTo(k)
        /\ \A j \in Listeners("onStepComplete") :
             Notified(r, "onStepComplete", j) = UpTo(k - 1)
        /\ \A j \in Listeners("onStepError") : Notified(r, "onStepError", j) = <<k>>
        /\ ErrorSteps(ctx[r]) = <<steps[k].name>>

\* C3: with continueOnError = true, once the run is over every registered
\* step was executed exactly once in registration order, errors holds one
\* record per failed step in the order of the failures, and currentStepName
\* is the name of the last registered step.
C3_ContinuesPastFailures ==
  \A r \in AllRuns :
    (Over(r) /\ options.continueOnError) =>
      /\ Executed(r) = UpTo(Len(steps))
      /\ Len(ctx[r].errors) = Cardinality(FailedSteps(r))
      /\ \A k \in 1 .. Len(ctx[r].errors) :
           /\ \E i \in FailedSteps(r) :
                /\ ctx[r].errors[k].step = steps[i].name
                /\ Cardinality({i2 \in FailedSteps(r) : i2 <= i}) = k
      /\ Len(steps) > 0 => ctx[r].currentStepName = steps[Len(steps)].name

\* C4: when no step fails, after execute errors is empty, successful is
\* true, and every listener received step-start and then step-complete
\* exactly once per step, the steps in registration order, and nobody a
\* step-error.  (An observer receives the callbacks it implements.)
C4_CleanRun ==
  \A r \in AllRuns :
    (Over(r) /\ FailedSteps(r) = {}) =>
      /\ Returned(r)
      /\ ctx[r].errors = << >>
      /\ Successful(ctx[r])
      /\ Executed(r) = UpTo(Len(steps))
      /\ \A j \in Listeners("onStepStart") :
           Notified(r, "onStepStart", j) = UpTo(Len(steps))
      /\ \A j \in Listeners("onStepComplete") :
           Notified(r, "onStepComplete", j) = UpTo(Len(steps))
      /\ \A j \in 1 .. Len(observers) : Notified(r, "onStepError", j) = << >>
      /\ \A p, q \in Pos(r) :
           ( /\ log[r][p].ev = "cbStart" /\ log[r][p].event = "onStepComplete"
             /\ log[r][q].ev = "cbStart" /\ log[r][q].event = "onStepStart"
             /\ log[r][p].step = log[r][q].step
             /\ log[r][p].obs = log[r][q].obs ) => q < p

\* a run of two steps, none failing, watched by an observer of every callback
C4_Witness ==
  \E r \in AllRuns :
    /\ Returned(r) /\ FailedSteps(r) = {} /\ Len(steps) >= 2
    /\ \E j \in 1 .. Len(observers) : observers[j] = FullObserver

IsCallback(e) == e.ev \in {"cbStart", "cbEnd"}

\* the observers whose callback for an event and a step has an entry of kind
\* ev ("cbStart": was called, "cbEnd": has settled)
CalledFor(r, ev, eventName, i) ==
  {log[r][p].obs : p \in {q \in Pos(r) : /\ log[r][q].ev = ev
                                          /\ log[r][q].event = eventName
                                          /\ log[r][q].step = i}}

\* notifyObservers is about to return to execute
NotifyReturns(r) == pc[r] \in EventNames /\ ~inflight[r] /\ obsIdx[r] > Len(observers)

\* the steps a run executes, given which of them fail: all of them, or the
\* steps up to the first failure when the loop breaks on an error
StepsToRun(r) ==
  IF ~options.continueOnError /\ FailedSteps(r) # {}
    THEN UpTo(Min(FailedSteps(r)))
    ELSE UpTo(Len(steps))

\* C5: whichever observer callbacks raise, when notifyObservers returns every
\* listener of the event has been called and has settled, the error records
\* are those of the failed step executions and no others, and a run that
\* returned executed the steps its step failures alone determine, with
\* successful true exactly when no step failed.
C5_ObserverFailuresSuppressed ==
  \A r \in AllRuns :
    /\ NotifyReturns(r) =>
         /\ CalledFor(r, "cbStart", pc[r], StepArg(r)) = Listeners(pc[r])
         /\ CalledFor(r, "cbEnd", pc[r], StepArg(r)) = Listeners(pc[r])
    /\ LET failed == FailedSteps(r) IN
         /\ Len(ctx[r].errors) = Count(r, "addError")
         /\ Len(ctx[r].errors) <= Cardinality(failed)
         /\ Returned(r) =>
              /\ Executed(r) = StepsToRun(r)
              /\ Len(ctx[r].errors) = Cardinality(failed)
              /\ Successful(ctx[r]) <=> failed = {}

\* a run of a step watched by two observers returned after callbacks raised
C5_Witness ==
  \E r \in AllRuns :
    /\ Returned(r) /\ diag[r] >= 2
    /\ Len(steps) >= 1 /\ Len(observers) = 2
    /\ Listeners("onStepStart") # {}

\* the newest entry of the log of run r.  The log only grows, an entry at a
\* time, so what holds of the newest entry in every reachable state holds of
\* every entry at the time it was made.
Newest(r) == log[r][Len(log[r])]

\* the outcome of the execution of step i, as the event it is notified with
OutcomeOf(r, i) ==
  IF \E p \in Pos(r) : log[r][p].ev = "execEnd" /\ log[r][p].step = i /\ log[r][p].failed
    THEN "onStepError" ELSE "onStepComplete"

\* step i of run r has finished: the step-start callbacks have settled, the
\* execution has settled, and the callbacks of its outcome have settled
Finished(r, i) ==
  LET outcome == OutcomeOf(r, i) IN
    /\ CalledFor(r, "cbEnd", "onStepStart", i) = Listeners("onStepStart")
    /\ \E m \in Pos(r) : log[r][m].ev = "execEnd" /\ log[r][m].step = i
    /\ CalledFor(r, "cbEnd", outcome, i) = Listeners(outcome)
    /\ \A ev \in StepEvents : CalledFor(r, "cbStart", ev, i) = CalledFor(r, "cbEnd", ev, i)

\* the newest entry starts a step: currentStepName is set, or a step-start
\* callback is called
StartsStep(e) == e.ev = "setCurrent" \/ (e.ev = "cbStart" /\ e.event = "onStepStart")

\* C6: the events of the steps of a run never interleave: whenever a step is
\* started (currentStepName set, step-start notified to an observer), every
\* earlier step has finished, its step-start callbacks, its execution and
\* its step-complete or step-error callbacks all settled; and whenever
\* something happens for a step, nothing has happened yet for a later step.
C6_StepsDoNotInterleave ==
  \A r \in AllRuns :
    (Len(log[r]) > 0 /\ Newest(r).step >= 1) =>
      /\ StartsStep(Newest(r)) => \A i \in 1 .. (Newest(r).step - 1) : Finished(r, i)
      /\ \A p \in Pos(r) : log[r][p].step <= Newest(r).step

\* the second step of a run was started after the first, watched by an observer
C6_Witness ==
  \E r \in AllRuns : \E q \in Pos(r) :
    /\ log[r][q].ev = "cbStart" /\ log[r][q].event = "onStepStart" /\ log[r][q].step = 2
    /\ Listeners("onStepComplete") # {}

\* C7: for every event, the callbacks are called on the listeners of the event
\* only, in registration order, one at a time: when a callback is called the
\* listeners registered before it, and no others, have been called for the
\* event and have settled, and the entry after a call is the end of that call.
C7_ObserversInOrder ==
  \A r \in AllRuns :
    /\ \A p \in Pos(r) :
         log[r][p].ev = "cbStart" =>
           IF p = Len(log[r]) THEN inflight[r]
           ELSE log[r][p + 1] = [log[r][p] EXCEPT !.ev = "cbEnd"]
    /\ (Len(log[r]) > 0 /\ Newest(r).ev = "cbStart") =>
         LET e == Newest(r)
             before == {j \in Listeners(e.event) : j < e.obs}
         IN /\ e.obs \in Listeners(e.event)
            /\ CalledFor(r, "cbEnd", e.event, e.step) = before
            /\ CalledFor(r, "cbStart", e.event, e.step) = before \cup {e.obs}
            /\ Cardinality({p \in Pos(r) : /\ log[r][p].ev = "cbStart"
                                            /\ log[r][p].event = e.event
                                            /\ log[r][p].step = e.step})
                 = Cardinality(before) + 1

\* the second of two listeners of an event is being called
C7_Witness ==
  \E r \in AllRuns : \E p \in Pos(r) :
    /\ log[r][p].ev = "cbStart" /\ log[r][p].obs = 2
    /\ 1 \in Listeners(log[r][p].event)

\* C8: whenever something happens for a step, workflow-start has been notified
\* to all its listeners and complete() has not been called; workflow-complete
\* is notified after complete() and before execute returns; execute returns
\* after all the workflow-complete callbacks, as the last thing of the run.
C8_LifecycleBracketed ==
  \A r \in AllRuns :
    /\ (Len(log[r]) > 0 /\ Newest(r).step >= 1) =>
         /\ CalledFor(r, "cbEnd", "onWorkflowStart", 0) = Listeners("onWorkflowStart")
         /\ Count(r, "complete") = 0
         /\ ctx[r].endTime = Absent
    /\ ctx[r].currentStepName # Undefined => Count(r, "setCurrent") >= 1
    /\ (Len(log[r]) > 0 /\ IsCallback(Newest(r)) /\ Newest(r).event = "onWorkflowComplete") =>
         /\ Count(r, "complete") = 1
         /\ Count(r, "return") = 0
         /\ ctx[r].endTime # Absent
    /\ (Len(log[r]) > 0 /\ Newest(r).ev = "complete") =>
         CalledFor(r, "cbStart", "onWorkflowComplete", 0) = {}
    /\ Returned(r) <=> (Len(log[r]) > 0 /\ Newest(r).ev = "return")
    /\ Returned(r) =>
         /\ Count(r, "return") = 1
         /\ Count(r, "complete") = 1
         /\ CalledFor(r, "cbEnd", "onWorkflowComplete", 0) = Listeners("onWorkflowComplete")

\* a run with a step returned, with listeners of workflow-start and -complete
C8_Witness ==
  \E r \in AllRuns :
    /\ Returned(r) /\ Len(steps) >= 1
    /\ Listeners("onWorkflowStart") # {} /\ Listeners("onWorkflowComplete") # {}

\* C9: every run that is over, stopped or finished, called context.complete()
\* exactly once and then notified workflow-complete once per listener, and
\* endTime and durationMs are defined while workflow-complete is notified.
C9_EveryRunCompletes ==
  \A r \in AllRuns :
    /\ Over(r) =>
         /\ Count(r, "complete") = 1
         /\ \A j \in Listeners("onWorkflowComplete") :
              Notified(r, "onWorkflowComplete", j) = <<0>>
    /\ pc[r] = "onWorkflowComplete" =>
         ctx[r].endTime # Absent /\ DurationMs(ctx[r]) # Absent

\* what a run sees in its context: the contents of the metadata mapping,
\* result, errors and currentStepName
View(r) ==
  [metadata |-> heap[ctx[r].metadata], result |-> ctx[r].result,
   errors |-> ctx[r].errors, currentStepName |-> ctx[r].currentStepName]

\* run r takes the step
Moves(r) ==
  <<pc[r], stepIdx[r], obsIdx[r], inflight[r], log[r]>>'
    # <<pc[r], stepIdx[r], obsIdx[r], inflight[r], log[r]>>

\* C10: the runs of one engine are independent: a step of one run changes
\* nothing of what another run sees in its context (metadata, result,
\* errors, currentStepName), whatever the engine configuration.
C10_RunsIndependent ==
  [][\A r \in AllRuns : (pc[r] # "idle" /\ ~Moves(r)) => View(r)' = View(r)]_vars

\* the steps of run r whose execute has been called and has not settled
Executing(r) ==
  {i \in 1 .. Len(steps) :
     Cardinality({p \in Pos(r) : log[r][p].ev = "execStart" /\ log[r][p].step = i})
       > Cardinality({p \in Pos(r) : log[r][p].ev = "execEnd" /\ log[r][p].step = i})}

\* the prefixes of a sequence
IsPrefix(a, b) == Len(a) <= Len(b) /\ a = SubSeq(b, 1, Len(a))

\* C11: whatever maxConcurrency is configured, at most one step of a run is
\* executing in any state, nothing else of the run happens between the call
\* of a step and its settling, and the executions and the step notifications
\* follow the step list as they do with maxConcurrency = 1: in list order,
\* and in a run that returned exactly the steps that the step failures and
\* continueOnError determine.
C11_OneStepAtATime ==
  \A r \in AllRuns :
    /\ Cardinality(Executing(r)) <= 1
    /\ Executing(r) # {} <=> (pc[r] = "execute" /\ inflight[r])
    /\ (Len(log[r]) > 1 /\ Newest(r).ev # "execEnd") =>
         log[r][Len(log[r]) - 1].ev # "execStart"
    /\ IsPrefix(Executed(r), UpTo(Len(steps)))
    /\ \A j \in Listeners("onStepStart") :
         IsPrefix(Notified(r, "onStepStart", j), UpTo(Len(steps)))
    /\ Returned(r) =>
         /\ Executed(r) = StepsToRun(r)
         /\ \A j \in Listeners("onStepStart") :
              Notified(r, "onStepStart", j) = StepsToRun(r)

\* a run of two steps on an engine with maxConcurrency above 1 has returned
C11_Witness ==
  \E r \in AllRuns :
    /\ Returned(r) /\ options.maxConcurrency > 1
    /\ Len(Executed(r)) = 2

\* C12: a run of an engine without steps returns a context with successful
\* true, errors empty and durationMs defined; workflow-start and then
\* workflow-complete were notified to their listeners, once each, and no
\* entry of the run is about a step.
C12_NoSteps ==
  \A r \in AllRuns :
    (Len(steps) = 0 /\ pc[r] # "idle") =>
      /\ ~Rejected(r)
      /\ \A p \in Pos(r) :
           /\ log[r][p].step = 0
           /\ log[r][p].event \notin StepEvents
           /\ log[r][p].ev \in {"construct", "cbStart", "cbEnd", "complete", "return"}
      /\ Returned(r) =>
           /\ Successful(ctx[r])
           /\ ctx[r].errors = << >>
           /\ DurationMs(ctx[r]) # Absent
           /\ DurationMs(ctx[r]) >= 0
           /\ \A j \in Listeners("onWorkflowStart") :
                Notified(r, "onWorkflowStart", j) = <<0>>
           /\ \A j \in Listeners("onWorkflowComplete") :
                Notified(r, "onWorkflowComplete", j) = <<0>>

\* a run without steps returned, watched by an observer of every callback
C12_Witness ==
  \E r \in AllRuns :
    /\ Returned(r) /\ Len(steps) = 0
    /\ \E j \in 1 .. Len(observers) : observers[j] = FullObserver

\* C13: in every state of a run, completed or not, successful is true exactly
\* when errors is empty: it is true from the construction of the context
\* until the first step failure is recorded, and false from then on.
C13_SuccessfulIffNoErrors ==
  \A r \in AllRuns :
    pc[r] # "idle" =>
      /\ Successful(ctx[r]) <=> ctx[r].errors = << >>
      /\ Successful(ctx[r]) <=> Count(r, "addError") = 0

\* a run not yet completed, past a recorded failure and executing the next step
C13_Witness ==
  \E r \in AllRuns :
    /\ pc[r] = "execute" /\ stepIdx[r] = 2
    /\ ctx[r].endTime = Absent
    /\ ~Successful(ctx[r])

\* C14: no step of the engine changes workflowId or workflowName of the
\* context of a run, and errors is append-only: the records it held stay, at
\* their indexes, so its length never decreases.
C14_IdentityAndErrorsStable ==
  [][\A r \in AllRuns :
       pc[r] # "idle" =>
         /\ ctx[r].workflowId' = ctx[r].workflowId
         /\ ctx[r].workflowName' = ctx[r].workflowName
         /\ Len(ctx[r].errors') >= Len(ctx[r].errors)
         /\ SubSeq(ctx[r].errors', 1, Len(ctx[r].errors)) = ctx[r].errors]_vars

\* a second error record has been appended
C14_Witness == \E r \in AllRuns : Len(ctx[r].errors) = 2

\* C15: endTime, once set, never changes, whatever is called on the context
\* afterwards.  (complete() assigns endTime on every call.)
C15_EndTimeSetOnce ==
  [][\A r \in AllRuns :
       ctx[r].endTime # Absent => ctx[r].endTime' = ctx[r].endTime]_vars

\* C16: durationMs is undefined as long as complete() has not been called on
\* the context; once it has been called durationMs is endTime - startTime, a
\* number that is not negative; and no operation makes a defined durationMs
\* smaller, so completing later never gives less than completing earlier.
C16_DurationMs ==
  [][\A r \in AllRuns :
       /\ pc[r]' # "idle" =>
            IF Cardinality({p \in 1 .. Len(log[r]') : log[r]'[p].ev = "complete"}) = 0
              THEN DurationMs(ctx[r]') = Absent
              ELSE /\ DurationMs(ctx[r]') # Absent
                   /\ DurationMs(ctx[r]') = ctx[r].endTime' - ctx[r].startTime'
                   /\ DurationMs(ctx[r]') >= 0
       /\ DurationMs(ctx[r]) # Absent => DurationMs(ctx[r]') >= DurationMs(ctx[r])]_vars

\* a context completed a second time, at a later instant than it was constructed
C16_Witness ==
  \E r \in AllRuns :
    /\ pc[r] = "held" /\ Count(r, "complete") = 2
    /\ DurationMs(ctx[r]) > 0

\* the message of the error record of a failure value
MessageFor(failure) ==
  CASE failure.kind = "Error" -> failure.message
    [] failure.kind = "string" -> failure.message
    [] failure.kind = "number" -> NumberToString(failure.num)
    [] OTHER -> "[object Object]"

\* C17: addError never throws, and a call changes errors by appending one
\* record at the end, with the step name passed, the failure value as
\* details, and as message the message text of an Error or the string
\* conversion of any other value.  (String() throws for a value without a
\* primitive conversion, and addError with it.)
C17_AddErrorTotal ==
  [][\A r \in AllRuns :
       /\ pc[r]' # "threw"
       /\ ctx[r].errors' # ctx[r].errors =>
            /\ Len(ctx[r].errors') = Len(ctx[r].errors) + 1
            /\ SubSeq(ctx[r].errors', 1, Len(ctx[r].errors)) = ctx[r].errors
            /\ LET rec == ctx[r].errors'[Len(ctx[r].errors')]
               IN /\ rec.step = DirectStepName
                  /\ rec.details \in FailureValues
                  /\ rec.message = MessageFor(rec.details)
                  /\ rec.timestamp = now]_vars

\* what run r sees in its context once the executor of a child has run
After(r, child) ==
  CASE child.writes = "metadata" ->
         [View(r) EXCEPT !.metadata = [@ EXCEPT ![child.name] = ctx[r].input]]
    [] child.writes = "result" -> [View(r) EXCEPT !.result = ctx[r].input]
    [] OTHER -> View(r)

\* the entries of the log of run r, after the step, of a kind and about step i
Primed(r, ev, i) ==
  {p \in 1 .. Len(log[r]') : log[r]'[p].ev = ev /\ log[r]'[p].step = i}

\* C18: a ConditionalStep evaluates its condition once and executes at most
\* one child, on the context of the run: while its execute is awaited the
\* context changes only when the verdict is in, and then by the effects of the
\* true child alone when the verdict is true, of the false child alone when
\* it is false and there is a false child, and not at all when there is none,
\* in which case the step completes without a failure.
C18_ConditionalStep ==
  [][\A r \in AllRuns :
       /\ (pc[r] = "execute" /\ Moves(r)) => View(r)' = View(r)
       /\ (pc[r] = "condition" /\ Moves(r)) =>
            LET step == steps[stepIdx[r]]
            IN IF step.condition THEN View(r)' = After(r, step.trueStep)
               ELSE IF step.falseStep # NoStep THEN View(r)' = After(r, step.falseStep)
               ELSE View(r)' = View(r)
       /\ \A i \in 1 .. Len(steps) :
            LET branches == Primed(r, "branch", i)
                ends == Primed(r, "execEnd", i)
            IN /\ Cardinality(branches) <= Cardinality(Primed(r, "execStart", i))
               /\ Cardinality(branches) <= 1
               /\ ends # {} => Cardinality(branches) = 1
               /\ \A p \in branches :
                    log[r]'[p].event =
                      IF steps[i].condition THEN steps[i].trueStep.name
                      ELSE steps[i].falseStep.name
               /\ (~steps[i].condition /\ steps[i].falseStep = NoStep) =>
                    \A p \in ends : ~log[r]'[p].failed]_vars

\* a run has returned in which a ConditionalStep took its true branch and a
\* ConditionalStep without a false child had the verdict false
C18_Witness ==
  \E r \in AllRuns :
    /\ Returned(r) /\ Len(Executed(r)) = 2
    /\ steps[1].kind = "conditional" /\ steps[1].condition
    /\ heap[ctx[r].metadata]["A"] = ctx[r].input
    /\ steps[2].kind = "conditional" /\ ~steps[2].condition /\ steps[2].falseStep = NoStep

\* C19: when the child a ConditionalStep delegated to fails in a run, the
\* error record carries the name of that child as its step, never the name of
\* the ConditionalStep.  (The catch clause of execute passes step.name of the
\* registered step, the ConditionalStep.)
C19_ErrorNamesChild ==
  \A r \in AllRuns :
    \A k \in 1 .. Len(ctx[r].errors) :
      /\ \A i \in 1 .. Len(steps) :
           steps[i].kind = "conditional" => ctx[r].errors[k].step # steps[i].name
      /\ \E i \in FailedSteps(r) :
           ctx[r].errors[k].step =
             IF steps[i].condition THEN steps[i].trueStep.name ELSE steps[i].falseStep.name

\* the array after its elements are pushed one by one, in order
RECURSIVE PushEach(_, _)
PushEach(array, list) ==
  IF list = << >> THEN array ELSE PushEach(Push(array, Head(list)), Tail(list))

\* C20: a mutator appends at the end: what was registered keeps its place and
\* its order, the other list and the options of the engine are untouched (it
\* is the same engine that is returned), and nothing is dropped as a
\* duplicate; pushing a list at once gives the list that pushing its elements
\* one by one gives; and a run that no failure stops executes every position
\* of the step list once, so a step registered twice is executed twice.
C20_MutatorsAppend ==
  [][/\ IsPrefix(steps, steps') /\ IsPrefix(observers, observers')
     /\ options' = options
     /\ steps' # steps =>
          /\ observers' = observers
          /\ \E list \in Lists(StepDefs, MaxSteps) :
               /\ list # << >>
               /\ steps' = PushEach(steps, list)
               /\ steps' = PushAll(steps, list)
               /\ Len(steps') = Len(steps) + Len(list)
     /\ observers' # observers =>
          /\ steps' = steps
          /\ \E list \in Lists(ObserverDefs, MaxObservers) :
               /\ list # << >>
               /\ observers' = PushEach(observers, list)
               /\ observers' = PushAll(observers, list)
               /\ Len(observers') = Len(observers) + Len(list)
     /\ \A list \in Lists(StepDefs, MaxSteps) :
          PushAll(steps, list) = PushEach(steps, list)
     /\ \A r \in AllRuns :
          (Returned(r)' /\ (options.continueOnError \/ FailedSteps(r)' = {})) =>
            Executed(r)' = UpTo(Len(steps))]_vars

\* a step registered twice was executed twice by a run that returned, on an
\* engine with two observers
C20_Witness ==
  \E r \in AllRuns :
    /\ Returned(r)
    /\ Len(steps) = 2 /\ steps[1] = steps[2]
    /\ Executed(r) = <<1, 2>>
    /\ Len(observers) = 2

\* C21: the engine the factory returns is the engine constructed directly
\* with the same options on which the steps of the argument and then its
\* observers were added one by one, in order; and its runs are the runs of
\* that engine: the steps that the failures and continueOnError determine,
\* notified to the listeners among the observers of the argument.
C21_FactoryIsComposition ==
  /\ options = [workflowName |-> request.workflowName,
                workflowId |-> request.workflowId,
                metadata |-> request.metadata,
                result |-> request.result,
                continueOnError |-> request.continueOnError,
                maxConcurrency |->
                  IF request.maxConcurrency = Absent THEN 1 ELSE request.maxConcurrency]
  /\ steps = PushEach(<< >>, request.steps)
  /\ observers = PushEach(<< >>, request.observers)
  /\ \A r \in AllRuns :
       Returned(r) =>
         /\ Executed(r) = StepsToRun(r)
         /\ \A j \in 1 .. Len(request.observers) :
              Implements(request.observers[j], "onStepStart") =>
                Notified(r, "onStepStart", j) = StepsToRun(r)

\* a run of an engine the factory made from two steps and two observers returned
C21_Witness ==
  \E r \in AllRuns :
    /\ Returned(r)
    /\ Len(request.steps) = 2 /\ Len(request.observers) = 2
    /\ Len(Executed(r)) = 2

\* C24: the error record is appended before step-error is notified, and the
\* observers are passed the failure that the record holds: whenever a
\* step-error callback is being notified, is running or has just settled, the
\* last record of errors has the name of the step and, as details, the
\* failure value that is passed to the callback.
C24_RecordBeforeStepError ==
  \A r \in AllRuns :
    pc[r] = "onStepError" =>
      /\ Len(ctx[r].errors) >= 1
      /\ LET rec == ctx[r].errors[Len(ctx[r].errors)]
         IN /\ rec.step = StepErrorArgs(r).stepName
            /\ rec.details = StepErrorArgs(r).error
            /\ rec.step = steps[stepIdx[r]].name
            /\ rec.message = MessageFor(rec.details)
      /\ Len(ctx[r].errors) = Count(r, "addError")
      /\ \E p \in Pos(r) :
           /\ log[r][p].ev = "addError" /\ log[r][p].step = stepIdx[r]
           /\ \A q \in Pos(r) :
                (IsCallback(log[r][q]) /\ log[r][q].event = "onStepError"
                   /\ log[r][q].step = stepIdx[r]) => p < q

\* a step-error callback is running for the second failure of a run
C24_Witness ==
  \E r \in AllRuns :
    /\ pc[r] = "onStepError" /\ inflight[r]
    /\ Len(ctx[r].errors) = 2

\* the step of the newest entry of a kind (0 when there is none)
LastStepOf(r, ev) ==
  LET ps == {p \in Pos(r) : log[r][p].ev = ev}
  IN IF ps = {} THEN 0
     ELSE log[r][CHOOSE p \in ps : \A q \in ps : q <= p].step

C30_ExactlyOneOutcome ==
  \A r \in AllRuns :
    Over(r) =>
      /\ \A i \in 1 .. Len(steps) :
           (\E p \in Pos(r) : log[r][p].ev = "setCurrent" /\ log[r][p].step = i) =>
             IF i \in FailedSteps(r)
               THEN /\ CalledFor(r, "cbStart", "onStepError", i) = Listeners("onStepError")
                    /\ CalledFor(r, "cbStart", "onStepComplete", i) = {}
               ELSE /\ CalledFor(r, "cbStart", "onStepComplete", i) = Listeners("onStepComplete")
                    /\ CalledFor(r, "cbStart", "onStepError", i) = {}
      /\ Len(ctx[r].errors) = Cardinality(FailedSteps(r))

\* the failed steps whose failure addError could not convert
Unconvertible(r) == {log[r][p].step : p \in {q \in Pos(r) : log[r][q].ev = "reject"}}

\* the failed steps at which a run stops
StopsAt(r) ==
  IF options.continueOnError THEN Unconvertible(r) ELSE FailedSteps(r)

\* the names of the steps of a set of positions of the step list, in list order
NamesOf(S) ==
  [k \in 1 .. Cardinality(S) |->
     steps[CHOOSE i \in S : Cardinality({j \in S : j <= i}) = k].name]

\* C23: observers cannot alter control flow: once a run is over, the steps it
\* executed, the steps and failure values of its error records, its result
\* and its successful flag are what the step list, the input, continueOnError
\* and the failures of the steps determine, whichever observers are
\* registered, whichever callbacks they implement and whichever of them raise.
C23_ObserversArePassive ==
  \A r \in AllRuns :
    Over(r) =>
      /\ Executed(r) =
           IF StopsAt(r) # {} THEN UpTo(Min(StopsAt(r))) ELSE UpTo(Len(steps))
      /\ ErrorSteps(ctx[r]) = NamesOf(FailedSteps(r) \ Unconvertible(r))
      /\ \A k \in 1 .. Len(ctx[r].errors) : ctx[r].errors[k].details \in StepFailures
      /\ ctx[r].result =
           IF \E k \in 1 .. Len(Executed(r)) : steps[Executed(r)[k]].writes = "result"
             THEN ctx[r].input ELSE options.result
      /\ Successful(ctx[r]) <=> FailedSteps(r) \subseteq Unconvertible(r)
      /\ Returned(r) <=> Unconvertible(r) = {}

\* a run in which a step failed and a callback raised is over, watched by
\* an observer that omits callbacks and one that implements them all
C23_Witness ==
  \E r \in AllRuns :
    /\ Returned(r) /\ FailedSteps(r) # {} /\ diag[r] >= 1
    /\ Len(steps) = 2
    /\ \E j, k \in 1 .. Len(observers) :
         observers[j] = PartialObserver /\ observers[k] = FullObserver

C26_AdvancesWhenStepsSettle ==
  /\ \A r \in AllRuns : (pc[r] # "idle") ~> Returned(r)
  /\ [](\A r \in AllRuns :
          (pc[r] = "execute" /\ inflight[r]) =>
            /\ Newest(r).ev = "execStart" /\ Newest(r).step = stepIdx[r]
            /\ ctx[r].endTime = Absent
            /\ Count(r, "complete") = 0
            /\ CalledFor(r, "cbStart", "onWorkflowComplete", 0) = {})

\* the registered steps that run r started
Started(r) == {Executed(r)[k] : k \in 1 .. Len(Executed(r))}

\* the PerformanceObserver watches the runs of the engine
Watched == \E j \in 1 .. Len(observers) : observers[j] = PerformanceObserver

\* C28: with the PerformanceObserver attached, once a run is over every step
\* that was started, whether its execute completed or failed, has a duration
\* entry under its name in metadata.performance.steps.  (A failure that
\* addError throws on is never notified as step-error: see C1.)
C28_FailureKeepsDuration ==
  \A r \in AllRuns :
    (Watched /\ Over(r)) =>
      \A i \in Started(r) : HasKey(perf[ctx[r].metadata].steps, steps[i].name)

\* the place in the engine's list of the first step with the name: in a run
\* the durations are recorded in the order of the list
FirstRecorded(name) == Min({k \in 1 .. Len(steps) : steps[k].name = name})

\* the entries of an object, as a set
EntriesOf(object) == {object[i] : i \in 1 .. Len(object)}

\* C22: with the PerformanceObserver attached, after a run that returned:
\* when durations were recorded, summary.total is their sum, summary.max and
\* summary.min the largest and the smallest, summary.count their number, and
\* stepsByDuration holds the same steps, enumerated in descending duration
\* with equal durations in the order they were recorded; when no duration was
\* recorded no summary is written.
C22_SummaryAndOrder ==
  \A r \in AllRuns :
    (Watched /\ Returned(r)) =>
      LET p == perf[ctx[r].metadata]
          byDuration == p.stepsByDuration
      IN IF p.steps = << >>
           THEN p.summary = NoSummary /\ byDuration = << >>
           ELSE /\ p.summary.total = SumOf(p.steps)
                /\ \A i \in 1 .. Len(p.steps) :
                     p.summary.min <= p.steps[i].value /\ p.steps[i].value <= p.summary.max
                /\ \E i, j \in 1 .. Len(p.steps) :
                     p.summary.min = p.steps[i].value /\ p.summary.max = p.steps[j].value
                /\ p.summary.count = Len(p.steps)
                /\ EntriesOf(byDuration) = EntriesOf(p.steps)
                /\ Len(byDuration) = Len(p.steps)
                /\ \A i, j \in 1 .. Len(byDuration) :
                     i < j =>
                       \/ byDuration[i].value > byDuration[j].value
                       \/ /\ byDuration[i].value = byDuration[j].value
                          /\ FirstRecorded(byDuration[i].key) < FirstRecorded(byDuration[j].key)

\* C29: in every interleaving of the runs of an engine that share one
\* PerformanceObserver, a run that is notified of onStepStart finds no start
\* timestamp under its key (it overwrites the timestamp of no other run), and
\* a run that is notified of onStepComplete or onStepError finds its start
\* timestamp there (no other run discarded it) and records a duration under
\* the name of the step into the metadata of its own context.
C29_StartTimesPerRun ==
  [][\A r \in AllRuns :
       (NotifyCall(r) /\ ObserverAt(obsIdx[r]) = PerformanceObserver) =>
         LET name == steps[stepIdx[r]].name
             key == StartKey(ctx[r].workflowId, name)
         IN /\ pc[r] = "onStepStart" => key \notin DOMAIN stepStartTimes
            /\ pc[r] \in {"onStepComplete", "onStepError"} =>
                 /\ key \in DOMAIN stepStartTimes
                 /\ key \notin DOMAIN stepStartTimes'
                 /\ HasKey(perf'[ctx[r].metadata].steps, name)]_vars

\* the run ended because the execute of a step failed: the loop was left by
\* the break, or the promise of execute rejected
StoppedOnError(r) == Rejected(r) \/ (FailedSteps(r) # {} /\ BreaksOnError)

\* the step registered by the entry at p was started later in the run, after
\* every step registered before it
ExecutedInOrder(r, p) ==
  \E q \in Pos(r) :
    /\ q > p
    /\ log[r][q].ev = "execStart" /\ log[r][q].step = log[r][p].step
    /\ \A i \in 1 .. log[r][p].step - 1 :
         \E q2 \in Pos(r) : q2 < q /\ log[r][q2].ev = "execStart" /\ log[r][q2].step = i

\* the entries from a to b belong to one notification
SameNotification(r, a, b) ==
  \A k \in a .. b :
    /\ log[r][k].ev \in {"cbStart", "cbEnd", "addStep", "addObserver"}
    /\ log[r][k].event = log[r][a].event

\* the observer registered by the entry at p, if it implements the callback,
\* is called in the notification it was registered in, after every observer
\* registered before it that implements the callback
ReceivesNotification(r, p) ==
  LET e == log[r][p]
  IN Implements(observers[e.obs], e.event) =>
       \E q \in Pos(r) :
         /\ q > p
         /\ SameNotification(r, p, q)
         /\ log[r][q].ev = "cbStart" /\ log[r][q].obs = e.obs /\ log[r][q].step = e.step
         /\ \A j \in 1 .. e.obs - 1 :
              Implements(observers[j], e.event) =>
                \E q2 \in Pos(r) :
                  /\ q2 < q
                  /\ SameNotification(r, q2, q)
                  /\ log[r][q2].ev = "cbStart" /\ log[r][q2].obs = j

\* C31 as stated: once the run is over, every step that a step or an observer
\* of the run registered was started by the run after all steps registered
\* before it, unless the run stopped on an error; and every observer that was
\* registered during a notification received it after the observers
\* registered before it.
C31_LiveLists ==
  \A r \in AllRuns :
    Over(r) =>
      \A p \in Pos(r) :
        /\ log[r][p].ev = "addStep" => StoppedOnError(r) \/ ExecutedInOrder(r, p)
        /\ log[r][p].ev = "addObserver" => ReceivesNotification(r, p)

\* C31, amended: the same for the steps registered before the step loop has
\* ended, that is by a step or during the notification of workflow-start,
\* step-start, step-complete or step-error; a step registered during the
\* notification of workflow-complete is not started by the run.
C31_LiveListsUntilLoopEnds ==
  \A r \in AllRuns :
    Over(r) =>
      \A p \in Pos(r) :
        /\ (log[r][p].ev = "addStep" /\ log[r][p].event # "onWorkflowComplete") =>
             StoppedOnError(r) \/ ExecutedInOrder(r, p)
        /\ (log[r][p].ev = "addStep" /\ log[r][p].event = "onWorkflowComplete") =>
             log[r][p].step \notin Started(r)
        /\ log[r][p].ev = "addObserver" => ReceivesNotification(r, p)

\* a run that returned without stopping on an error, in which an observer
\* registered a step during the notification of step-complete of the step
\* before it, and an observer registered during a notification was called
C31_Witness ==
  \E r \in AllRuns :
    /\ Returned(r) /\ ~StoppedOnError(r)
    /\ \E p \in Pos(r) :
         /\ log[r][p].ev = "addStep" /\ log[r][p].event = "onStepComplete"
         /\ log[r][p].step = 2
         /\ ExecutedInOrder(r, p)
    /\ \E p \in Pos(r) :
         /\ log[r][p].ev = "addObserver"
         /\ Implements(observers[log[r][p].obs], log[r][p].event)
         /\ log[r][p].obs = 2

C33_ConsoleNeverRaises == ~consoleOut.raised

====
